---- MODULE Spec2Model ----
(***************************************************************************)
(* Search strategies of core/agents.py: the greedy ExampleAgent, DFSAgent, *)
(* BranchAndBoundAgent and AStar, and the create_agent registry.           *)
(*                                                                         *)
(* A coordinate is a pair <<r, c>>, a tile a record [pos, cost].  The Grid *)
(* collaborator (core/grid.py) is not part of the sources at hand; it is   *)
(* modelled from its documented interface: get, neighbors4, manhattan.     *)
(* One loop iteration of a find_path is one step of the model.             *)
(***************************************************************************)
EXTENDS Integers, Sequences, FiniteSets, TLC

VARIABLES grid, start, goal, AGENTS, arg, agents, error, pc, nodes, visited, result

vars == <<grid, start, goal, AGENTS, arg, agents, error, pc, nodes, visited, result>>

(***************************************************************************)
(* Bounds of the model.                                                    *)
(***************************************************************************)
\* a grid has at most MaxCells cells (rows * cols)
MaxCells == 6
\* at most MaxWalls cells of a grid hold no tile
MaxWalls == 1
\* the greedy walk is followed up to MaxGreedy coordinates
MaxGreedy == 8
\* the registry scenario constructs at most MaxAgents strategies
MaxAgents == 3

\* the tile costs the grids are built from: every grid takes its costs from
\* one of these sets
Palettes == {{0, 1}, {1, 2}}

\* names handed to create_agent: the registered ones and some that are not
Names == {"Example", "DFS", "BranchAndBound", "AStar", "Nope"}

(***************************************************************************)
(* Sequences as Python lists.                                              *)
(***************************************************************************)
Last(s) == s[Len(s)]

Range(s) == {s[i] : i \in 1..Len(s)}

Contains(s, x) == \E i \in 1..Len(s) : s[i] = x

\* the value of a one-element set: Only({e(v) : v \in {x}}) evaluates x once
Only(S) == CHOOSE x \in S : TRUE

Abs(x) == IF x < 0 THEN -x ELSE x

\* tuple comparison of two keys of equal length, as Python compares tuples
RECURSIVE TupleLess(_, _)
TupleLess(a, b) ==
  IF a = <<>> THEN FALSE
  ELSE IF Head(a) # Head(b) THEN Head(a) < Head(b)
  ELSE TupleLess(Tail(a), Tail(b))

\* min(..., key=...) over the keys ks: the index of the first key that no
\* other key is smaller than
FirstMin(ks) ==
  LET First(v) == CHOOSE i \in 1..Len(v) :
                    /\ \A j \in 1..Len(v) : ~TupleLess(v[j], v[i])
                    /\ \A j \in 1..(i - 1) : TupleLess(v[i], v[j])
  IN Only({First(v) : v \in {ks}})

\* list.remove(x): drops the first element equal to x
Remove(s, x) ==
  LET First(v, y) == CHOOSE i \in 1..Len(v) : v[i] = y /\ \A j \in 1..(i - 1) : v[j] # y
  IN Only({SubSeq(v, 1, First(v, y) - 1) \o SubSeq(v, First(v, y) + 1, Len(v)) :
             <<v, y>> \in {<<s, x>>}})

\* sorted(..., key=...) over the keys ks: the indices in sorted order; the sort
\* is stable, equal keys keep their order
SortedOrder(ks) ==
  LET before(v, j, i) == TupleLess(v[j], v[i]) \/ (~TupleLess(v[i], v[j]) /\ j < i)
      rank(v, i) == Cardinality({j \in 1..Len(v) : before(v, j, i)}) + 1
  IN Only({[k \in 1..Len(v) |-> CHOOSE i \in 1..Len(v) : rank(v, i) = k] : v \in {ks}})

(***************************************************************************)
(* The Grid collaborator: rows x cols cells, a tile cost for every cell    *)
(* that holds a tile, and the order in which neighbors4 lists directions.  *)
(***************************************************************************)
East == <<0, 1>>
South == <<1, 0>>
West == <<0, -1>>
North == <<-1, 0>>

Cells(rows, cols) == (0..(rows - 1)) \X (0..(cols - 1))

manhattan(a, b) == Abs(a[1] - b[1]) + Abs(a[2] - b[2])

get(g, r, c) == [pos |-> <<r, c>>, cost |-> g.tiles[<<r, c>>]]

neighbors4(g, r, c) ==
  LET around == [i \in 1..4 |-> <<r + g.order[i][1], c + g.order[i][2]>>]
      present == SelectSeq(around, LAMBDA p : p \in DOMAIN g.tiles)
  IN Only({[i \in 1..Len(v) |-> get(g, v[i][1], v[i][2])] : v \in {present}})

Path(coords) == coords

(***************************************************************************)
(* ExampleAgent.find_path: greedy descent on the Manhattan distance.       *)
(***************************************************************************)
ExampleInit(g, s, t) == <<s>>

\* faulty variant: the walk gives up when it steps on a coordinate it has been on
ExampleLoopCycleCheck(ns, t) ==
  Last(ns) # t /\ \A i \in 1..(Len(ns) - 1) : ns[i] # Last(ns)

ExampleLoop(ns, t) == Last(ns) # t

\* faulty variant: max() where the code takes min()
best_tiles_max(g, ns, t) ==
  LET neighbors == neighbors4(g, Last(ns)[1], Last(ns)[2])
      max_dist == CHOOSE d \in {manhattan(neighbors[i].pos, t) : i \in 1..Len(neighbors)} :
                    \A i \in 1..Len(neighbors) : d >= manhattan(neighbors[i].pos, t)
  IN SelectSeq(neighbors, LAMBDA tile : manhattan(tile.pos, t) = max_dist)

\* the tiles random.randint picks from; min() of no neighbors raises
best_tiles(g, ns, t) ==
  LET neighbors == neighbors4(g, Last(ns)[1], Last(ns)[2])
      min_dist == CHOOSE d \in {manhattan(neighbors[i].pos, t) : i \in 1..Len(neighbors)} :
                    \A i \in 1..Len(neighbors) : d <= manhattan(neighbors[i].pos, t)
  IN SelectSeq(neighbors, LAMBDA tile : manhattan(tile.pos, t) = min_dist)

(***************************************************************************)
(* DFSAgent.find_path: a path stack and a set of visited coordinates.      *)
(***************************************************************************)
directions(d) ==
  CASE d = <<0, 1>> -> 0
    [] d = <<1, 0>> -> 1
    [] d = <<0, -1>> -> 2
    [] d = <<-1, 0>> -> 3

\* faulty variant: the sort key without the direction priority
DFSKeyCostOnly(t, r, c) == <<t.cost>>

DFSKey(t, r, c) == <<t.cost, directions(<<t.pos[1] - r, t.pos[2] - c>>)>>

neighbors_sorted(g, ns, vis) ==
  LET r == Last(ns)[1]
      c == Last(ns)[2]
      neighbors == neighbors4(g, r, c)
      unvisited == SelectSeq(neighbors, LAMBDA tile : tile.pos \notin vis)
  IN Only({[k \in 1..Len(v) |-> v[SortedOrder([i \in 1..Len(v) |-> DFSKey(v[i], r, c)])[k]]] :
             v \in {unvisited}})

\* faulty variant: the start is not marked visited
DFSInitUnmarked(g, s, t) == [nodes |-> <<s>>, visited |-> {}]

DFSInit(g, s, t) == [nodes |-> <<s>>, visited |-> {s}]

DFSLoop(ns, t) == ns # <<>> /\ Last(ns) # t

\* faulty variant: the pushed coordinate is not added to visited
DFSIterNoMark(g, t, st) ==
  LET sorted == neighbors_sorted(g, st.nodes, st.visited)
  IN IF sorted = <<>>
     THEN [nodes |-> SubSeq(st.nodes, 1, Len(st.nodes) - 1), visited |-> st.visited]
     ELSE [nodes |-> Append(st.nodes, sorted[1].pos), visited |-> st.visited]

\* faulty variant: backtracking un-marks the coordinate it pops
DFSIterUnmark(g, t, st) ==
  LET sorted == neighbors_sorted(g, st.nodes, st.visited)
  IN IF sorted = <<>>
     THEN [nodes |-> SubSeq(st.nodes, 1, Len(st.nodes) - 1),
           visited |-> st.visited \ {Last(st.nodes)}]
     ELSE [nodes |-> Append(st.nodes, sorted[1].pos),
           visited |-> st.visited \cup {sorted[1].pos}]

\* one iteration of the while loop
DFSIter(g, t, st) ==
  LET sorted == neighbors_sorted(g, st.nodes, st.visited)
  IN IF sorted = <<>>
     THEN [nodes |-> SubSeq(st.nodes, 1, Len(st.nodes) - 1), visited |-> st.visited]
     ELSE [nodes |-> Append(st.nodes, sorted[1].pos),
           visited |-> st.visited \cup {sorted[1].pos}]

(***************************************************************************)
(* BranchAndBoundAgent.find_path: a pool of candidate paths with their     *)
(* accumulated cost.                                                       *)
(***************************************************************************)
BBInit(g, s, t) == <<[path |-> <<s>>, cost |-> get(g, s[1], s[2]).cost]>>

\* faulty variant: the shortest candidate first, the cost as the tie-break
BBKeyLengthFirst(p) == <<Len(p.path), p.cost>>

\* faulty variant: among equal costs the longest candidate first
BBKeyLongestFirst(p) == <<p.cost, -Len(p.path)>>

BBKey(p) == <<p.cost, Len(p.path)>>

BBBest(pool) == Only({v[FirstMin([i \in 1..Len(v) |-> BBKey(v[i])])] : v \in {pool}})

BBExpand(g, best) ==
  LET current == Last(best.path)
      fresh == SelectSeq(neighbors4(g, current[1], current[2]),
                         LAMBDA neighbor : ~Contains(best.path, neighbor.pos))
  IN Only({[i \in 1..Len(v) |->
              [path |-> Append(b.path, v[i].pos), cost |-> b.cost + v[i].cost]] :
             <<v, b>> \in {<<fresh, best>>}})

\* one iteration of the while loop on a pool that is not empty
BBIter(g, t, pool) ==
  LET best == BBBest(pool)
      rest == Remove(pool, best)
  IN IF Last(best.path) = t
     THEN [returned |-> TRUE, path |-> Path(best.path), nodes |-> rest]
     ELSE [returned |-> FALSE, path |-> <<>>, nodes |-> rest \o BBExpand(g, best)]

(***************************************************************************)
(* AStar.find_path: the pool of branch and bound, each candidate with its  *)
(* g cost and the Manhattan distance of its last coordinate to the goal.   *)
(***************************************************************************)
AStarInit(g, s, t) ==
  <<[path |-> <<s>>, gcost |-> get(g, s[1], s[2]).cost, hcost |-> manhattan(s, t)]>>

\* faulty variant: the heuristic alone, the cost so far left out
AStarKeyGreedy(p) == <<p.hcost, Len(p.path)>>

AStarKey(p) == <<p.gcost + p.hcost, Len(p.path)>>

AStarBest(pool) == Only({v[FirstMin([i \in 1..Len(v) |-> AStarKey(v[i])])] : v \in {pool}})

AStarExpand(g, t, best) ==
  LET current == Last(best.path)
      fresh == SelectSeq(neighbors4(g, current[1], current[2]),
                         LAMBDA neighbor : ~Contains(best.path, neighbor.pos))
  IN Only({[i \in 1..Len(v) |->
              [path |-> Append(b.path, v[i].pos),
               gcost |-> b.gcost + v[i].cost,
               hcost |-> manhattan(v[i].pos, t)]] :
             <<v, b>> \in {<<fresh, best>>}})

AStarIter(g, t, pool) ==
  LET best == AStarBest(pool)
      rest == Remove(pool, best)
  IN IF Last(best.path) = t
     THEN [returned |-> TRUE, path |-> Path(best.path), nodes |-> rest]
     ELSE [returned |-> FALSE, path |-> <<>>, nodes |-> rest \o AStarExpand(g, t, best)]

(***************************************************************************)
(* The registry: names and constructors in the order the dict lists them.  *)
(***************************************************************************)
Registry ==
  << <<"Example", "ExampleAgent">>, <<"DFS", "DFSAgent">>,
     <<"BranchAndBound", "BranchAndBoundAgent">>, <<"AStar", "AStar">> >>

keys(d) == [i \in 1..Len(d) |-> d[i][1]]

Lookup(d, name) == d[CHOOSE i \in 1..Len(d) : d[i][1] = name][2]

\* each constructor passes its own name to Agent.__init__
Construct(cls) ==
  CASE cls = "ExampleAgent" -> [cls |-> cls, name |-> "Example"]
    [] cls = "DFSAgent" -> [cls |-> cls, name |-> "DFS"]
    [] cls = "BranchAndBoundAgent" -> [cls |-> cls, name |-> "BranchAndBound"]
    [] cls = "AStar" -> [cls |-> cls, name |-> "AStar"]

\* "Unknown agent '<name>'. Available: <the keys, joined>"
ValueError(d, name) == [unknown |-> name, available |-> keys(d)]

\* faulty variant: an unknown name falls back to the first registered strategy
create_agent_default(d, name) ==
  IF ~Contains(keys(d), name)
  THEN [raised |-> <<>>, returned |-> <<Construct(d[1][2])>>]
  ELSE [raised |-> <<>>, returned |-> <<Construct(Lookup(d, name))>>]

\* create_agent(name): what is raised and what is returned, each in a list of
\* at most one element
create_agent(d, name) ==
  IF ~Contains(keys(d), name)
  THEN [raised |-> <<ValueError(d, name)>>, returned |-> <<>>]
  ELSE [raised |-> <<>>, returned |-> <<Construct(Lookup(d, name))>>]

(***************************************************************************)
(* The inputs: every grid of at most MaxCells cells with at most MaxWalls  *)
(* cells left without a tile, costs from Costs, start and goal on tiles.   *)
(***************************************************************************)
Shapes == {sh \in (1..MaxCells) \X (1..MaxCells) : sh[1] * sh[2] <= MaxCells}

AllOrders ==
  {o \in [1..4 -> {East, South, West, North}] : \A i, j \in 1..4 : o[i] = o[j] => i = j}

\* the order of neighbors4 the searches run under
Orders == {<<North, South, West, East>>}

Tilings(sh, maxWalls, palettes) ==
  UNION {UNION {[Cells(sh[1], sh[2]) \ w -> costs] : costs \in palettes} :
         w \in {x \in SUBSET Cells(sh[1], sh[2]) : Cardinality(x) <= maxWalls}}

Grids(shapes, maxWalls, palettes, orders) ==
  UNION {{[rows |-> sh[1], cols |-> sh[2], tiles |-> tl, order |-> o] :
            tl \in Tilings(sh, maxWalls, palettes), o \in orders} : sh \in shapes}

Idle ==
  /\ AGENTS = Registry
  /\ arg = ""
  /\ agents = <<>>
  /\ error = <<>>
  /\ pc = "idle"
  /\ nodes = <<>>
  /\ visited = {}
  /\ result = <<>>

Init ==
  /\ grid \in Grids(Shapes, MaxWalls, Palettes, Orders)
  /\ start \in DOMAIN grid.tiles
  /\ goal \in DOMAIN grid.tiles
  /\ Idle

(***************************************************************************)
(* The caller: create_agent, then find_path on the strategy it returned.   *)
(***************************************************************************)
Create(name) ==
  /\ pc = "idle"
  /\ LET r == create_agent(AGENTS, name)
     IN /\ error' = r.raised
        /\ agents' = agents \o r.returned
  /\ arg' = name
  /\ UNCHANGED <<grid, start, goal, AGENTS, pc, nodes, visited, result>>

\* the caller of a search constructs one strategy
CreateOne == agents = <<>> /\ \E name \in Names : Create(name)

\* the registry scenario constructs up to MaxAgents strategies
CreateMany == Len(agents) < MaxAgents /\ \E name \in Names : Create(name)

self == Last(agents)

Running(cls) == pc = "run" /\ self.cls = cls

Call ==
  /\ pc = "idle"
  /\ agents # <<>>
  /\ pc' = "run"
  /\ CASE self.cls = "ExampleAgent" ->
            nodes' = ExampleInit(grid, start, goal) /\ visited' = {}
       [] self.cls = "DFSAgent" ->
            /\ nodes' = DFSInit(grid, start, goal).nodes
            /\ visited' = DFSInit(grid, start, goal).visited
       [] self.cls = "BranchAndBoundAgent" ->
            nodes' = BBInit(grid, start, goal) /\ visited' = {}
       [] self.cls = "AStar" ->
            nodes' = AStarInit(grid, start, goal) /\ visited' = {}
  /\ UNCHANGED <<grid, start, goal, AGENTS, arg, agents, error, result>>

Return(path) ==
  /\ pc' = "done"
  /\ result' = path
  /\ UNCHANGED <<grid, start, goal, AGENTS, arg, agents, error, nodes, visited>>

ExampleStep ==
  /\ Running("ExampleAgent")
  /\ ExampleLoop(nodes, goal)
  /\ Len(nodes) < MaxGreedy
  /\ neighbors4(grid, Last(nodes)[1], Last(nodes)[2]) # <<>>
  /\ \E i \in 1..Len(best_tiles(grid, nodes, goal)) :
       nodes' = Append(nodes, best_tiles(grid, nodes, goal)[i].pos)
  /\ UNCHANGED <<grid, start, goal, AGENTS, arg, agents, error, pc, visited, result>>

\* min() of an empty sequence raises
ExampleRaise ==
  /\ Running("ExampleAgent")
  /\ ExampleLoop(nodes, goal)
  /\ neighbors4(grid, Last(nodes)[1], Last(nodes)[2]) = <<>>
  /\ pc' = "raised"
  /\ UNCHANGED <<grid, start, goal, AGENTS, arg, agents, error, nodes, visited, result>>

ExampleReturn ==
  /\ Running("ExampleAgent")
  /\ ~ExampleLoop(nodes, goal)
  /\ Return(Path(nodes))

DFSStep ==
  /\ Running("DFSAgent")
  /\ DFSLoop(nodes, goal)
  /\ LET st == DFSIter(grid, goal, [nodes |-> nodes, visited |-> visited])
     IN nodes' = st.nodes /\ visited' = st.visited
  /\ UNCHANGED <<grid, start, goal, AGENTS, arg, agents, error, pc, result>>

DFSReturn ==
  /\ Running("DFSAgent")
  /\ ~DFSLoop(nodes, goal)
  /\ Return(Path(nodes))

PoolStep(cls, it) ==
  /\ Running(cls)
  /\ nodes # <<>>
  /\ nodes' = it.nodes
  /\ IF it.returned
     THEN pc' = "done" /\ result' = it.path
     ELSE UNCHANGED <<pc, result>>
  /\ UNCHANGED <<grid, start, goal, AGENTS, arg, agents, error, visited>>

PoolEmpty(cls) ==
  /\ Running(cls)
  /\ nodes = <<>>
  /\ Return(Path(<<>>))

BBStep == PoolStep("BranchAndBoundAgent", BBIter(grid, goal, nodes))

BBReturnEmpty == PoolEmpty("BranchAndBoundAgent")

AStarStep == PoolStep("AStar", AStarIter(grid, goal, nodes))

AStarReturnEmpty == PoolEmpty("AStar")

\* the steps of a running find_path
DFSNext == DFSStep \/ DFSReturn

Step ==
  \/ ExampleStep
  \/ ExampleRaise
  \/ ExampleReturn
  \/ DFSStep
  \/ DFSReturn
  \/ BBStep
  \/ BBReturnEmpty
  \/ AStarStep
  \/ AStarReturnEmpty

Next == CreateOne \/ Call \/ Step

Spec == Init /\ [][Next]_vars

\* find_path is synchronous: a call that has started keeps running
\* for termination: one more cell may lack its tile, every tile costs the same
FairInit ==
  /\ grid \in Grids(Shapes, MaxWalls + 1, {{1}}, Orders \cup {<<West, North, East, South>>})
  /\ start \in DOMAIN grid.tiles
  /\ goal \in DOMAIN grid.tiles
  /\ Idle

FairSpec == FairInit /\ [][Next]_vars /\ WF_vars(Step)

\* the depth-first search on its own, under an order of neighbors4 that is
\* not the order of its direction priority
DFSSpecInit ==
  /\ grid \in Grids(Shapes, MaxWalls, {{0, 1}}, {<<West, North, East, South>>})
  /\ start \in DOMAIN grid.tiles
  /\ goal \in DOMAIN grid.tiles
  /\ Idle

CreateDFS == agents = <<>> /\ Create("DFS")

DFSSpecNext == CreateDFS \/ Call \/ DFSNext

DFSSpec == DFSSpecInit /\ [][DFSSpecNext]_vars

\* the registry on its own: a caller that only constructs strategies
RegistryInit ==
  /\ grid \in Grids({<<1, 1>>}, 0, Palettes, Orders)
  /\ start = <<0, 0>>
  /\ goal = <<0, 0>>
  /\ Idle

RegistryNext == CreateMany

RegistrySpec == RegistryInit /\ [][RegistryNext]_vars

(***************************************************************************)
(* A whole find_path call, iterated from the same loop bodies.             *)
(***************************************************************************)
RECURSIVE DFSRun(_, _, _)
DFSRun(g, t, st) ==
  IF DFSLoop(st.nodes, t) THEN DFSRun(g, t, DFSIter(g, t, st)) ELSE Path(st.nodes)

DFSFindPath(g, s, t) == DFSRun(g, t, DFSInit(g, s, t))

RECURSIVE BBRun(_, _, _)
BBRun(g, t, pool) ==
  IF pool = <<>> THEN Path(<<>>)
  ELSE LET it == BBIter(g, t, pool)
       IN IF it.returned THEN it.path ELSE BBRun(g, t, it.nodes)

BBFindPath(g, s, t) == BBRun(g, t, BBInit(g, s, t))

RECURSIVE AStarRun(_, _, _)
AStarRun(g, t, pool) ==
  IF pool = <<>> THEN Path(<<>>)
  ELSE LET it == AStarIter(g, t, pool)
       IN IF it.returned THEN it.path ELSE AStarRun(g, t, it.nodes)

AStarFindPath(g, s, t) == AStarRun(g, t, AStarInit(g, s, t))

(***************************************************************************)
(* What the claims speak of: routes on the grid and their cost.            *)
(***************************************************************************)
NoRepeat(s) == \A i, j \in 1..Len(s) : s[i] = s[j] => i = j

Adjacent4(g, a, b) ==
  /\ a \in DOMAIN g.tiles
  /\ b \in DOMAIN g.tiles
  /\ <<b[1] - a[1], b[2] - a[2]>> \in {East, South, West, North}

\* a route from s to t: 4-adjacent steps over tiles, no coordinate twice
IsRoute(g, s, t, path) ==
  /\ path # <<>>
  /\ path[1] = s
  /\ Last(path) = t
  /\ \A i \in 1..(Len(path) - 1) : Adjacent4(g, path[i], path[i + 1])
  /\ NoRepeat(path)

RECURSIVE PathCost(_, _)
PathCost(g, path) ==
  IF path = <<>> THEN 0 ELSE g.tiles[Head(path)] + PathCost(g, Tail(path))

\* every simple route that extends path to t, by exhaustive enumeration
RECURSIVE RoutesFrom(_, _, _)
RoutesFrom(g, t, path) ==
  IF Last(path) = t THEN {path}
  ELSE UNION {RoutesFrom(g, t, Append(path, q)) :
                q \in {q \in DOMAIN g.tiles :
                         Adjacent4(g, Last(path), q) /\ ~Contains(path, q)}}

SimpleRoutes == RoutesFrom(grid, goal, <<start>>)

Reachable == SimpleRoutes # {}

Done(cls) == pc = "done" /\ self.cls = cls

Searches == {"DFSAgent", "BranchAndBoundAgent", "AStar"}

(***************************************************************************)
(* C1: a non-empty Path returned by DFSAgent, BranchAndBoundAgent or AStar *)
(* starts at start, ends at goal, moves between 4-adjacent tiles and holds *)
(* no coordinate twice.                                                    *)
(***************************************************************************)
C1_ReturnedPathIsRoute ==
  (pc = "done" /\ self.cls \in Searches /\ result # <<>>)
    => IsRoute(grid, start, goal, result)

\* a search has returned a route that turns a corner
C1_Witness ==
  /\ pc = "done"
  /\ self.cls = "DFSAgent"
  /\ Len(result) >= 4
  /\ start[1] # goal[1]
  /\ start[2] # goal[2]

(***************************************************************************)
(* C2: when goal is reachable, the path BranchAndBoundAgent returns has    *)
(* the minimum total tile cost over all simple routes from start to goal.  *)
(***************************************************************************)
C2_BranchAndBoundOptimal ==
  (Done("BranchAndBoundAgent") /\ Reachable)
    => /\ result \in SimpleRoutes
       /\ \A route \in SimpleRoutes : PathCost(grid, result) <= PathCost(grid, route)

\* the cheapest route is a detour: a shorter route exists and costs more
C2_Witness ==
  /\ Done("BranchAndBoundAgent")
  /\ result # <<>>
  /\ \E route \in SimpleRoutes :
       /\ Len(route) < Len(result)
       /\ PathCost(grid, route) > PathCost(grid, result)

(***************************************************************************)
(* C3, as stated: on every grid with non-negative tile costs, tiles of     *)
(* cost 0 included, AStar and BranchAndBoundAgent return Paths of the same *)
(* total cost (both empty, or both non-empty with equal cost).             *)
(***************************************************************************)
SameCostAsBranchAndBound ==
  LET bb == BBFindPath(grid, start, goal)
  IN /\ (result = <<>>) <=> (bb = <<>>)
     /\ PathCost(grid, result) = PathCost(grid, bb)

\* C3, as stated: A* returns the cost of branch and bound on every grid
C3_Original_AStarMatchesBranchAndBound ==
  Done("AStar") => SameCostAsBranchAndBound

(***************************************************************************)
(* C3, amended: on every grid whose tile costs are all at least 1, AStar   *)
(* and BranchAndBoundAgent return Paths of the same total cost.            *)
(***************************************************************************)
CostsAtLeastOne == \A q \in DOMAIN grid.tiles : grid.tiles[q] >= 1

\* C3, amended: with every tile cost at least 1, A* returns the cost of branch and bound
C3_AStarMatchesBranchAndBound ==
  (Done("AStar") /\ CostsAtLeastOne) => SameCostAsBranchAndBound

\* costs of 1 and 2, and two routes of the same length and different cost
C3_Witness ==
  /\ Done("AStar")
  /\ CostsAtLeastOne
  /\ result # <<>>
  /\ \E route \in SimpleRoutes :
       /\ Len(route) = Len(result)
       /\ PathCost(grid, route) > PathCost(grid, result)

(***************************************************************************)
(* C5: the greedy ExampleAgent returns only from a cell equal to goal; it  *)
(* has no failure exit, so when goal cannot be reached it never returns,   *)
(* walking over coordinates it has been on before.                         *)
(***************************************************************************)
C5_GreedyReturnsOnlyAtGoal ==
  /\ Done("ExampleAgent") => (result # <<>> /\ Last(result) = goal /\ Reachable)
  /\ (Running("ExampleAgent") /\ ExampleLoop(nodes, goal) /\ Len(nodes) < MaxGreedy
        /\ neighbors4(grid, Last(nodes)[1], Last(nodes)[2]) # <<>>)
       => ENABLED ExampleStep

\* the walk is still going after it came back to a coordinate, goal out of reach
C5_Witness ==
  /\ Running("ExampleAgent")
  /\ ~Reachable
  /\ Len(nodes) = MaxGreedy
  /\ ~NoRepeat(nodes)

(***************************************************************************)
(* C7: DFSAgent returns the same Path whatever the order in which          *)
(* neighbors4 lists the neighbors.                                         *)
(***************************************************************************)
C7_DFSIndependentOfNeighborOrder ==
  Done("DFSAgent")
    => \A o \in AllOrders : DFSFindPath([grid EXCEPT !.order = o], start, goal) = result

\* the two neighbors of start cost the same: the direction priority decided
C7_Witness ==
  /\ Done("DFSAgent")
  /\ Len(result) >= 3
  /\ LET ns == neighbors4(grid, start[1], start[2])
     IN Len(ns) = 2 /\ ns[1].cost = ns[2].cost /\ result[2] = ns[2].pos

(***************************************************************************)
(* C8: while DFSAgent runs, visited only grows, every coordinate on the    *)
(* stack is in visited, the stack holds no coordinate twice, and a         *)
(* coordinate is pushed only if it was never visited before.               *)
(***************************************************************************)
DFSStackInv ==
  Running("DFSAgent") => (Range(nodes) \subseteq visited /\ NoRepeat(nodes))

DFSStepInv ==
  (Running("DFSAgent") /\ pc' = "run")
    => /\ visited \subseteq visited'
       /\ Len(nodes') > Len(nodes)
            => (Last(nodes') \notin visited /\ Last(nodes') \in visited')
       /\ Len(nodes') <= Len(nodes) => visited' = visited

\* C8: the stack invariant in every state, the visited-set rule on every step
C8_VisitedIsPermanent == [](DFSStackInv) /\ [][DFSStepInv]_vars

\* the search has backtracked past two coordinates and pushed again
C8_Witness ==
  /\ Running("DFSAgent")
  /\ Len(nodes) >= 2
  /\ Cardinality(visited) >= Len(nodes) + 2
  /\ goal \notin visited

(***************************************************************************)
(* C9: among the simple routes of minimum total cost, the Path             *)
(* BranchAndBoundAgent returns has the fewest coordinates.                 *)
(***************************************************************************)
C9_BranchAndBoundShortestAmongCheapest ==
  (Done("BranchAndBoundAgent") /\ result # <<>>)
    => \A route \in SimpleRoutes :
         \/ PathCost(grid, result) < PathCost(grid, route)
         \/ /\ PathCost(grid, result) = PathCost(grid, route)
            /\ Len(result) <= Len(route)

\* a longer route costs exactly as much as the returned one
C9_Witness ==
  /\ Done("BranchAndBoundAgent")
  /\ result # <<>>
  /\ \E route \in SimpleRoutes :
       /\ PathCost(grid, route) = PathCost(grid, result)
       /\ Len(route) > Len(result)

(***************************************************************************)
(* C4: when goal cannot be reached from start, DFSAgent,                   *)
(* BranchAndBoundAgent and AStar terminate and return the empty Path, the  *)
(* stack or the pool of candidates being empty.                            *)
(***************************************************************************)
C4_UnreachableGoalEndsEmpty ==
  (pc = "run" /\ self.cls \in Searches /\ ~Reachable)
    ~> (pc = "done" /\ result = <<>> /\ nodes = <<>>)

\* DFS gave up after it had visited, and backtracked past, three coordinates
C4_Witness ==
  /\ Done("DFSAgent")
  /\ ~Reachable
  /\ result = <<>>
  /\ Cardinality(visited) >= 3

(***************************************************************************)
(* C10: on a grid with a tile in every cell, every step of ExampleAgent    *)
(* moves to a cell one closer to goal, so the walk terminates and returns  *)
(* manhattan(start, goal) + 1 coordinates from start to goal, none twice.  *)
(***************************************************************************)
NoWalls == DOMAIN grid.tiles = Cells(grid.rows, grid.cols)

GreedyWalkInv ==
  (pc \in {"run", "done", "raised"} /\ self.cls = "ExampleAgent" /\ NoWalls)
    => /\ pc # "raised"
       /\ nodes[1] = start
       /\ Len(nodes) + manhattan(Last(nodes), goal) = manhattan(start, goal) + 1
       /\ NoRepeat(nodes)
       /\ pc = "done" => /\ result = nodes
                         /\ Last(result) = goal
                         /\ Len(result) = manhattan(start, goal) + 1

GreedyStepInv ==
  (Running("ExampleAgent") /\ NoWalls /\ nodes' # nodes)
    => manhattan(Last(nodes'), goal) = manhattan(Last(nodes), goal) - 1

\* C10: the walk invariant, the one-closer step, and termination
C10_GreedyTerminatesOnFullGrid ==
  /\ [](GreedyWalkInv)
  /\ [][GreedyStepInv]_vars
  /\ (Running("ExampleAgent") /\ NoWalls) ~> (pc = "done")

\* a walk that had to choose between two tied neighbors
C10_Witness ==
  /\ Done("ExampleAgent")
  /\ NoWalls
  /\ Len(result) >= 4
  /\ start[1] # goal[1]
  /\ start[2] # goal[2]

(***************************************************************************)
(* C6: create_agent of an unregistered name raises the error that lists    *)
(* the four registered names and constructs nothing; of a registered name  *)
(* it returns a new instance of the matching strategy; the registry is the *)
(* same after every call.                                                  *)
(***************************************************************************)
Registered == {"Example", "DFS", "BranchAndBound", "AStar"}

ClassOf(name) ==
  CASE name = "Example" -> "ExampleAgent"
    [] name = "DFS" -> "DFSAgent"
    [] name = "BranchAndBound" -> "BranchAndBoundAgent"
    [] name = "AStar" -> "AStar"

CreateAgentContract ==
  /\ AGENTS' = AGENTS
  /\ <<arg, agents, error>>' # <<arg, agents, error>>
       => IF arg' \notin Registered
          THEN /\ agents' = agents
               /\ error' = <<[unknown |-> arg',
                              available |-> <<"Example", "DFS", "BranchAndBound", "AStar">>]>>
          ELSE /\ error' = <<>>
               /\ Len(agents') = Len(agents) + 1
               /\ SubSeq(agents', 1, Len(agents)) = agents
               /\ Last(agents') = [cls |-> ClassOf(arg'), name |-> arg']

\* C6: every step of the registry scenario keeps the contract of create_agent
C6_CreateAgent == [][CreateAgentContract]_vars

\* two instances of one strategy, then a call with an unknown name
C6_Witness ==
  /\ Len(agents) = 2
  /\ agents[1] = agents[2]
  /\ error # <<>>
  /\ error[1].unknown = "Nope"
====
